---- MODULE Spec2Model ----
(***************************************************************************)
(* Schit - Stores Cryptographic Hashes In Tables (src/schit.py).           *)
(*                                                                         *)
(* The model covers FileMonitor: the resolution of the monitored file set  *)
(* (get_config_files), the hashing of a file (hash_file) and the three     *)
(* commands that write the table file_data (init, diff, update).  The      *)
(* table has no key and no constraint, so it is a bag of rows.  Commands   *)
(* run one at a time; the filesystem changes between commands.  prev is a  *)
(* history variable: the table before the last step.                       *)
(*                                                                         *)
(* Two further specifications run the methods statement by statement:      *)
(* SpecRace runs two diff commands at the same time, SpecInit runs         *)
(* init_database one statement at a time and may interrupt it.  runs holds *)
(* the local variables of their processes; Spec leaves it alone.           *)
(***************************************************************************)
EXTENDS Bags, FiniteSets, Integers, Sequences, TLC

VARIABLES config, listing, fs, table, store, config_files, pc, prev, chain,
          runs

vars ==
  <<config, listing, fs, table, store, config_files, pc, prev, chain, runs>>

(***************************************************************************)
(* Bounds of the model.                                                    *)
(***************************************************************************)
\* number of distinct file contents a file may hold
MaxContent == 2

Contents == 1 .. MaxContent

(***************************************************************************)
(* Sentinel values the code writes into the hash columns.                  *)
(***************************************************************************)
NotChecked == "Not checked."
FileDeleted == "File deleted."
NewFile == "New File."

(***************************************************************************)
(* The directory tree.  Directories are fixed; a file name is listed in    *)
(* its directory while the file exists.  "/m" is a directory that does not *)
(* exist.  The order in which a directory lists its sub-directories is     *)
(* not specified, but it is the same at every listing, since the           *)
(* sub-directories do not change: it is the variable listing.              *)
(***************************************************************************)
Tree ==
  [p \in {"/d", "/d/a", "/d/b"} |->
     CASE p = "/d"   -> [dirs |-> {"a", "b"}, files |-> {"f"}]
       [] p = "/d/a" -> [dirs |-> {},         files |-> {}]
       [] p = "/d/b" -> [dirs |-> {},         files |-> {"y"}]]

\* os.path.join(dirpath, name)
join(dirpath, name) == dirpath \o "/" \o name

FilePaths == UNION {{join(d, f) : f \in Tree[d].files} : d \in DOMAIN Tree}

\* the text of an empty <file/> element: elem.text is None
NonePath == "None"

\* what a path of the filesystem may be
FileStates ==
  {[kind |-> "absent", data |-> 0], [kind |-> "unreadable", data |-> 0]}
    \cup {[kind |-> "file", data |-> c] : c \in Contents}

(***************************************************************************)
(* The configurations a FileMonitor is constructed from.                   *)
(***************************************************************************)
Configs ==
  { [include_dirs |-> {"/d"}, include_files |-> {},
     exclude_dirs |-> {}, exclude_files |-> {}],
    [include_dirs |-> {"/d"}, include_files |-> {},
     exclude_dirs |-> {"/d/a", "/d/b"}, exclude_files |-> {}],
    [include_dirs |-> {"/d", "/m"}, include_files |-> {},
     exclude_dirs |-> {"/d/b"}, exclude_files |-> {"/d/f"}],
    [include_dirs |-> {"/d/b"}, include_files |-> {"/d/f"},
     exclude_dirs |-> {"/d/a"}, exclude_files |-> {"/d/f"}],
    [include_dirs |-> {}, include_files |-> {"/d/f", "/d/b/y"},
     exclude_dirs |-> {}, exclude_files |-> {}],
    [include_dirs |-> {"/d"}, include_files |-> {NonePath},
     exclude_dirs |-> {"/d/a"}, exclude_files |-> {"/d/b/y"}] }

(***************************************************************************)
(* hash_file: the SHA1 hex digest of the file's bytes, or the exception    *)
(* that open() raises.                                                     *)
(***************************************************************************)
\* hashlib.sha1(content).hexdigest() of the contents "1", "2", "3", "4"
HexDigest ==
  << "356a192b7913b04c54574d18c28d46e6395428ab",
     "da4b9237bacccdf19c0760cab7aec4a8359010b0",
     "77de68daecd823babbb58edb1c8e14d7106e83bb",
     "1b6453892473a467d07372d45eb05abc2031647a" >>

hash_file(files, file_location) ==
  IF file_location = NonePath
    THEN [raised |-> "TypeError", digest |-> ""]
    ELSE IF file_location \notin DOMAIN files
           \/ files[file_location].kind # "file"
      THEN [raised |-> "IOError", digest |-> ""]
      ELSE [raised |-> "none", digest |-> HexDigest[files[file_location].data]]

(***************************************************************************)
(* get_config_files.  order gives, for every directory, the order in which *)
(* os.walk lists its sub-directories.  Orders are the possible ones.       *)
(***************************************************************************)
Listings(S) ==
  {s \in [1 .. Cardinality(S) -> S] : \A e \in S : \E i \in DOMAIN s : s[i] = e}

\* the directories whose listing has more than one possible order
Branching == {d \in DOMAIN Tree : Cardinality(Tree[d].dirs) > 1}

Orders ==
  {[d \in DOMAIN Tree |->
      IF d \in Branching THEN o[d]
                         ELSE CHOOSE l \in Listings(Tree[d].dirs) : TRUE] :
     o \in {f \in [Branching ->
                     UNION {Listings(Tree[d].dirs) : d \in Branching}] :
              \A d \in Branching : f[d] \in Listings(Tree[d].dirs)}}

\* list.remove(name): drops the first occurrence
ListRemove(dirs, name) ==
  LET i == CHOOSE k \in DOMAIN dirs :
             dirs[k] = name /\ \A j \in 1 .. k - 1 : dirs[j] # name
  IN  [j \in 1 .. Len(dirs) - 1 |-> IF j < i THEN dirs[j] ELSE dirs[j + 1]]

\* "for dir_name in dirs: if join(dirpath, dir_name) in exclude_dirs:
\*  dirs.remove(dir_name)": the iterator is an index into the list that is
\* being shortened; i is the index of the next element it yields
RECURSIVE prune_dirs(_, _, _, _)
prune_dirs(dirs, i, dirpath, exclude_dirs) ==
  IF i > Len(dirs)
    THEN dirs
    ELSE IF join(dirpath, dirs[i]) \in exclude_dirs
      THEN prune_dirs(ListRemove(dirs, dirs[i]), i + 1, dirpath, exclude_dirs)
      ELSE prune_dirs(dirs, i + 1, dirpath, exclude_dirs)

\* the files of the directory dirpath that exist
listed_files(files, dirpath) ==
  {f \in Tree[dirpath].files : files[join(dirpath, f)].kind # "absent"}

\* the body of "for dirpath, dirs, files in os.walk(include_dir)": the paths
\* added to config_files from dirpath downwards
RECURSIVE walk(_, _, _, _)
walk(dirpath, order, cfg, files) ==
  IF dirpath \notin DOMAIN Tree
    THEN {}
    ELSE LET dirs == prune_dirs(order[dirpath], 1, dirpath, cfg.exclude_dirs)
         IN  ({join(dirpath, f) : f \in listed_files(files, dirpath)}
                \ cfg.exclude_files)
             \cup (UNION {walk(join(dirpath, dirs[k]), order, cfg, files) :
                            k \in DOMAIN dirs})

get_config_files(cfg, order, files) ==
  cfg.include_files
    \cup (UNION {walk(include_dir, order, cfg, files) :
                   include_dir \in cfg.include_dirs})

(***************************************************************************)
(* The position of the run.  pc names the step that ended last: a command  *)
(* of main(), a phase of diff or a change of the filesystem.  The phases   *)
(* of a diff that directly follows a diff are "rechecked_existing" and     *)
(* "rediff".  A diff whose second phase ended with an exception ends in    *)
(* "diff_raised" or "rediff_raised".  prev is the table as it was before   *)
(* that step.  chain is a history variable too: it follows the commands    *)
(* diff, update, diff run one after the other on an unchanged filesystem.  *)
(***************************************************************************)
Checked == {"checked_existing", "rechecked_existing"}

Raised == {"diff_raised", "rediff_raised"}

Diffed == {"diff", "rediff"} \cup Raised

(***************************************************************************)
(* The processes of SpecRace and SpecInit and their local variables: the   *)
(* statement a process has reached (at), the paths its loop goes through   *)
(* (files), the paths it has inserted (added), the paths init has still to *)
(* hash (todo) and the rows of its open transaction (pending).             *)
(***************************************************************************)
Procs == {"p", "q"}

Idle ==
  [at |-> "idle", files |-> {}, added |-> {}, todo |-> {},
   pending |-> EmptyBag]

\* the positions between two commands
Rest == {"idle", "inserted", "raised", "failed", "committed", "killed"}

(***************************************************************************)
(* The table file_data.                                                    *)
(***************************************************************************)
Row(file_loc, orig_hash, new_hash, is_modified) ==
  [file_location |-> file_loc, original_hash |-> orig_hash,
   new_hash |-> new_hash, is_modified |-> is_modified]

\* SELECT ... FROM file_data
get_database_files(rows) == BagToSet(rows)

\* SELECT ... FROM file_data WHERE is_modified=1
get_modified_files(rows) == {r \in BagToSet(rows) : r.is_modified = 1}

\* the paths that have a row
database_paths(rows) == {r.file_location : r \in get_database_files(rows)}

\* number of rows of a path
RowCount(rows, file_loc) ==
  BagCardinality([r \in {q \in BagToSet(rows) : q.file_location = file_loc}
                    |-> rows[r]])

\* For every path of the table, the result row of the SELECT whose UPDATE
\* is executed last (it decides the values all rows of that path end with).
LastRows(rows) ==
  {l \in [database_paths(rows) -> get_database_files(rows)] :
     \A p \in database_paths(rows) : l[p].file_location = p}

(***************************************************************************)
(* init_database                                                           *)
(***************************************************************************)
\* mutant: the rows are inserted whether hashing succeeded or not
init_rows_unfiltered(resolved, files) ==
  SetToBag({Row(file_loc, hash_file(files, file_loc).digest, NotChecked, 0) :
              file_loc \in resolved})

init_rows(resolved, files) ==
  SetToBag({Row(file_loc, hash_file(files, file_loc).digest, NotChecked, 0) :
              file_loc \in {p \in resolved :
                              hash_file(files, p).raised = "none"}})

InitDatabase ==
  /\ pc \notin Checked
  /\ config_files' = get_config_files(config, listing, fs)
  /\ store' = init_rows(config_files', fs)
  /\ table' = TRUE
  /\ pc' = "init"
  /\ prev' = store
  /\ chain' = "none"
  /\ UNCHANGED <<config, listing, fs, runs>>

(***************************************************************************)
(* check_existing_files (diff, phase A)                                    *)
(***************************************************************************)
\* mutant: the except branch does not set is_modified
existing_entry_unflagged(files, row) ==
  LET h == hash_file(files, row.file_location)
  IN  IF h.raised = "none"
        THEN [new_hash |-> h.digest,
              is_modified |-> IF h.digest # row.original_hash THEN 1 ELSE 0]
        ELSE [new_hash |-> FileDeleted, is_modified |-> 0]

\* mutant: the hash is compared with new_hash, not with orig_hash
existing_entry_vs_new(files, row) ==
  LET h == hash_file(files, row.file_location)
  IN  IF h.raised = "none"
        THEN [new_hash |-> h.digest,
              is_modified |-> IF h.digest # row.new_hash THEN 1 ELSE 0]
        ELSE [new_hash |-> FileDeleted, is_modified |-> 1]

\* mutant: the comparison of the hashes is inverted
existing_entry_inverted(files, row) ==
  LET h == hash_file(files, row.file_location)
  IN  IF h.raised = "none"
        THEN [new_hash |-> h.digest,
              is_modified |-> IF h.digest = row.original_hash THEN 1 ELSE 0]
        ELSE [new_hash |-> FileDeleted, is_modified |-> 1]

\* mutant: a row that is marked deleted stays marked deleted
existing_entry_sticky(files, row) ==
  LET h == hash_file(files, row.file_location)
  IN  IF h.raised = "none" /\ row.new_hash # FileDeleted
        THEN [new_hash |-> h.digest,
              is_modified |-> IF h.digest # row.original_hash THEN 1 ELSE 0]
        ELSE [new_hash |-> FileDeleted, is_modified |-> 1]

\* the values of (new_hash, is_modified) computed for one row of the SELECT
existing_entry(files, row) ==
  LET h == hash_file(files, row.file_location)
  IN  IF h.raised = "none"
        THEN [new_hash |-> h.digest,
              is_modified |-> IF h.digest # row.original_hash THEN 1 ELSE 0]
        ELSE [new_hash |-> FileDeleted, is_modified |-> 1]

\* mutant: the UPDATE also sets original_hash to the hash it has computed
check_existing_rows_promote(rows, files, last) ==
  LET Upd(r) ==
        [r EXCEPT
           !.original_hash =
              existing_entry(files, last[r.file_location]).new_hash,
           !.new_hash = existing_entry(files, last[r.file_location]).new_hash,
           !.is_modified =
              existing_entry(files, last[r.file_location]).is_modified]
  IN  BagOfAll(Upd, rows)

check_existing_rows(rows, files, last) ==
  LET Upd(r) ==
        [r EXCEPT
           !.new_hash = existing_entry(files, last[r.file_location]).new_hash,
           !.is_modified =
              existing_entry(files, last[r.file_location]).is_modified]
  IN  BagOfAll(Upd, rows)

CheckExistingFiles ==
  /\ pc \notin Checked
  /\ table
  /\ \E last \in LastRows(store) : store' = check_existing_rows(store, fs, last)
  /\ pc' = IF pc \in Diffed THEN "rechecked_existing" ELSE "checked_existing"
  /\ prev' = store
  /\ chain' = IF chain = "accepted" THEN "accepted_checked" ELSE "checked"
  /\ UNCHANGED <<config, listing, fs, table, config_files, runs>>

(***************************************************************************)
(* check_new_files (diff, phase B)                                         *)
(***************************************************************************)
\* the resolved paths that have no row
\* mutant: the paths that have a row are not left out
new_paths_all(rows, resolved) == resolved

new_paths(rows, resolved) == resolved \ database_paths(rows)

\* the exceptions "except IOError" catches
caught_new_files == {"IOError"}

\* hashing one of the new paths raises an exception that is not caught
new_files_raises(rows, resolved, files) ==
  \E p \in new_paths(rows, resolved) :
     hash_file(files, p).raised \notin caught_new_files \cup {"none"}

\* mutant: INSERT INTO file_data VALUES (?, 'New File.', ?, 0)
new_rows_unflagged(rows, resolved, files) ==
  SetToBag({Row(file_loc, NewFile, hash_file(files, file_loc).digest, 0) :
              file_loc \in {p \in new_paths(rows, resolved) :
                              hash_file(files, p).raised = "none"}})

new_rows(rows, resolved, files) ==
  SetToBag({Row(file_loc, NewFile, hash_file(files, file_loc).digest, 1) :
              file_loc \in {p \in new_paths(rows, resolved) :
                              hash_file(files, p).raised = "none"}})

\* an exception that leaves the method leaves before db_conn.commit(): the
\* inserts it made are rolled back
CheckNewFiles ==
  /\ pc \in Checked
  /\ config_files' = get_config_files(config, listing, fs)
  /\ IF new_files_raises(store, config_files', fs)
       THEN /\ store' = store
            /\ pc' = IF pc = "rechecked_existing" THEN "rediff_raised"
                                                  ELSE "diff_raised"
       ELSE /\ store' = store (+) new_rows(store, config_files', fs)
            /\ pc' = IF pc = "rechecked_existing" THEN "rediff" ELSE "diff"
  /\ prev' = store
  /\ chain' = IF chain = "accepted_checked" THEN "accepted_diffed"
                                           ELSE "diffed"
  /\ UNCHANGED <<config, listing, fs, table, runs>>

(***************************************************************************)
(* update_database                                                         *)
(***************************************************************************)
\* mutant: DELETE FROM file_data WHERE is_modified=1
delete_rows_modified(rows) ==
  [r \in {q \in BagToSet(rows) : q.is_modified # 1} |-> rows[r]]

\* DELETE FROM file_data WHERE new_hash="File deleted."
delete_rows(rows) ==
  [r \in {q \in BagToSet(rows) : q.new_hash # FileDeleted} |-> rows[r]]

\* mutant: original_hash is not replaced
update_rows_keep(rows, last) ==
  LET Upd(r) ==
        [r EXCEPT !.new_hash = NotChecked,
                  !.is_modified = 0]
  IN  BagOfAll(Upd, delete_rows(rows))

\* mutant: a row that no diff has checked keeps its original_hash
update_rows_guarded(rows, last) ==
  LET Upd(r) ==
        [r EXCEPT !.original_hash =
                     IF last[r.file_location].new_hash = NotChecked
                       THEN r.original_hash
                       ELSE last[r.file_location].new_hash,
                  !.new_hash = NotChecked,
                  !.is_modified = 0]
  IN  BagOfAll(Upd, delete_rows(rows))

update_rows(rows, last) ==
  LET Upd(r) ==
        [r EXCEPT !.original_hash = last[r.file_location].new_hash,
                  !.new_hash = NotChecked,
                  !.is_modified = 0]
  IN  BagOfAll(Upd, delete_rows(rows))

UpdateDatabase ==
  /\ pc \notin Checked
  /\ table
  /\ \E last \in LastRows(store) : store' = update_rows(store, last)
  /\ pc' = "update"
  /\ prev' = store
  /\ chain' = IF chain \in {"diffed", "accepted_diffed"} THEN "accepted"
                                                      ELSE "none"
  /\ UNCHANGED <<config, listing, fs, table, config_files, runs>>

(***************************************************************************)
(* diff and update of a database that has no table file_data:              *)
(* get_database_files raises sqlite3.OperationalError and the command ends.*)
(***************************************************************************)
DiffNoTable ==
  /\ pc \notin Checked
  /\ ~table
  /\ pc' = "diff_failed"
  /\ prev' = store
  /\ chain' = "none"
  /\ UNCHANGED <<config, listing, fs, table, store, config_files, runs>>

UpdateNoTable ==
  /\ pc \notin Checked
  /\ ~table
  /\ pc' = "update_failed"
  /\ prev' = store
  /\ chain' = "none"
  /\ UNCHANGED <<config, listing, fs, table, store, config_files, runs>>

(***************************************************************************)
(* The filesystem changes between two commands.                            *)
(***************************************************************************)
\* a file is created, or its bytes are replaced
WriteFile ==
  /\ pc \notin Checked
  /\ \E p \in FilePaths, c \in Contents :
       /\ fs[p] # [kind |-> "file", data |-> c]
       /\ fs' = [fs EXCEPT ![p] = [kind |-> "file", data |-> c]]
  /\ pc' = "fs"
  /\ prev' = store
  /\ chain' = "none"
  /\ UNCHANGED <<config, listing, table, store, config_files, runs>>

DeleteFile ==
  /\ pc \notin Checked
  /\ \E p \in FilePaths :
       /\ fs[p].kind # "absent"
       /\ fs' = [fs EXCEPT ![p] = [kind |-> "absent", data |-> 0]]
  /\ pc' = "fs"
  /\ prev' = store
  /\ chain' = "none"
  /\ UNCHANGED <<config, listing, table, store, config_files, runs>>

\* the permission to read an existing file is taken away
ProtectFile ==
  /\ pc \notin Checked
  /\ \E p \in FilePaths :
       /\ fs[p].kind = "file"
       /\ fs' = [fs EXCEPT ![p] = [kind |-> "unreadable", data |-> 0]]
  /\ pc' = "fs"
  /\ prev' = store
  /\ chain' = "none"
  /\ UNCHANGED <<config, listing, table, store, config_files, runs>>

(***************************************************************************)
(* The specification.                                                      *)
(***************************************************************************)
Init ==
  /\ config \in Configs
  /\ listing \in Orders
  /\ fs \in [FilePaths -> FileStates]
  /\ table = FALSE
  /\ store = EmptyBag
  /\ config_files = {}
  /\ prev = EmptyBag
  /\ pc = "start"
  /\ chain = "none"
  /\ runs = [p \in Procs |-> Idle]

Next ==
  \/ InitDatabase
  \/ CheckExistingFiles
  \/ CheckNewFiles
  \/ UpdateDatabase
  \/ DiffNoTable
  \/ UpdateNoTable
  \/ WriteFile
  \/ DeleteFile
  \/ ProtectFile

Spec == Init /\ [][Next]_vars

TypeOK ==
  /\ config \in Configs
  /\ listing \in Orders
  /\ fs \in [FilePaths -> FileStates]
  /\ table \in BOOLEAN
  /\ IsABag(store)
  /\ IsABag(prev)
  /\ config_files \subseteq FilePaths \cup {NonePath}
  /\ \A q \in Procs :
       /\ runs[q].at \in Rest \cup {"new", "insert", "dropped", "created",
                                     "walk"}
       /\ runs[q].files \subseteq FilePaths \cup {NonePath}
       /\ runs[q].added \subseteq FilePaths
       /\ runs[q].todo \subseteq runs[q].files
       /\ IsABag(runs[q].pending)

(***************************************************************************)
(* The filesystem changes while commands run (SpecRace, SpecInit).         *)
(***************************************************************************)
ChangeFile ==
  /\ \E f \in FilePaths, st \in FileStates :
       /\ fs[f] # st
       /\ st.kind = "unreadable" => fs[f].kind = "file"
       /\ fs' = [fs EXCEPT ![f] = st]
  /\ UNCHANGED <<config, listing, table, store, config_files, pc, prev,
                 chain, runs>>

(***************************************************************************)
(* Two diff commands at the same time (SpecRace).  Every process has its   *)
(* own connection; a method's statements up to db_conn.commit() are one    *)
(* transaction, and the transactions of two connections take effect one    *)
(* after the other.  A step is check_existing_files, the reads at the      *)
(* start of check_new_files, or the transaction of check_new_files.        *)
(***************************************************************************)
\* init_database, run while no other command runs
RaceInitDatabase ==
  /\ \A q \in Procs : runs[q].at \in Rest
  /\ store' = init_rows(get_config_files(config, listing, fs), fs)
  /\ table' = TRUE
  /\ runs' = [q \in Procs |-> Idle]
  /\ UNCHANGED <<config, listing, fs, config_files, pc, prev, chain>>

\* check_existing_files, or the sqlite3.OperationalError of
\* get_database_files when there is no table
RaceCheckExisting(self) ==
  /\ runs[self].at \in Rest
  /\ IF table
       THEN /\ \E last \in LastRows(store) :
                 store' = check_existing_rows(store, fs, last)
            /\ runs' = [runs EXCEPT ![self] = [Idle EXCEPT !.at = "new"]]
       ELSE /\ store' = store
            /\ runs' = [runs EXCEPT ![self] = [Idle EXCEPT !.at = "failed"]]
  /\ UNCHANGED <<config, listing, fs, table, config_files, pc, prev, chain>>

\* check_new_files: config_files = self.get_config_files() and the set
\* database_files of the paths get_database_files returns; files is the
\* set of the paths the loop will find not in database_files
RaceReadNew(self) ==
  /\ runs[self].at = "new"
  /\ runs' = [runs EXCEPT ![self] =
                [Idle EXCEPT
                   !.at = "insert",
                   !.files =
                      new_paths(store, get_config_files(config, listing, fs))]]
  /\ UNCHANGED <<config, listing, fs, table, store, config_files, pc, prev,
                 chain>>

\* mutant: file_location is a key of the table and an INSERT of a path
\* that has a row is ignored
insert_new_rows_unique(rows, inserted) ==
  rows (+) [r \in {i \in BagToSet(inserted) :
                     i.file_location \notin database_paths(rows)}
              |-> inserted[r]]

\* INSERT INTO file_data: the table has no key, the rows are added to the
\* rows the table holds at the time of the INSERT
insert_new_rows(rows, inserted) == rows (+) inserted

\* check_new_files: the loop of INSERTs and db_conn.commit()
RaceInsertNew(self) ==
  /\ runs[self].at = "insert"
  /\ IF new_files_raises(EmptyBag, runs[self].files, fs)
       THEN /\ store' = store
            /\ runs' = [runs EXCEPT ![self] = [Idle EXCEPT !.at = "raised"]]
       ELSE /\ store' =
                 insert_new_rows(store,
                    new_rows(EmptyBag, runs[self].files, fs))
            /\ runs' = [runs EXCEPT ![self] =
                  [Idle EXCEPT
                     !.at = "inserted",
                     !.added =
                        database_paths(new_rows(EmptyBag, runs[self].files,
                                                fs))]]
  /\ UNCHANGED <<config, listing, fs, table, config_files, pc, prev, chain>>

RaceNext ==
  \/ RaceInitDatabase
  \/ ChangeFile
  \/ \E self \in Procs : RaceCheckExisting(self)
  \/ \E self \in Procs : RaceReadNew(self)
  \/ \E self \in Procs : RaceInsertNew(self)

\* the race is run for a configuration that resolves both files of the tree
\* and for the one with the empty <file/> element
RaceConfigs ==
  {c \in Configs : \/ c.include_files = {NonePath}
                    \/ (c.include_files = {} /\ c.exclude_dirs = {})}

RaceInit == Init /\ config \in RaceConfigs

SpecRace == RaceInit /\ [][RaceNext]_vars

(***************************************************************************)
(* init_database statement by statement (SpecInit).  One process runs at a *)
(* time; the record of a process that has ended is kept until the next     *)
(* command starts.  DROP TABLE and CREATE TABLE take effect when executed; *)
(* the INSERTs open a transaction that db_conn.commit() ends.              *)
(***************************************************************************)
\* db_curs.execute(drop_table_query), the OperationalError of a missing
\* table is passed
InitDropTable(self) ==
  /\ \A q \in Procs : runs[q].at \in Rest
  /\ table' = FALSE
  /\ store' = EmptyBag
  /\ runs' = [q \in Procs |->
                IF q = self THEN [Idle EXCEPT !.at = "dropped"] ELSE Idle]
  /\ UNCHANGED <<config, listing, fs, config_files, pc, prev, chain>>

\* db_curs.execute(create_table_query)
InitCreateTable(self) ==
  /\ runs[self].at = "dropped"
  /\ table' = TRUE
  /\ runs' = [runs EXCEPT ![self].at = "created"]
  /\ UNCHANGED <<config, listing, fs, store, config_files, pc, prev, chain>>

\* for file_loc in self.get_config_files(): the set is computed once
InitResolve(self) ==
  /\ runs[self].at = "created"
  /\ runs' = [runs EXCEPT ![self] =
                [Idle EXCEPT !.at = "walk",
                             !.files = get_config_files(config, listing, fs),
                             !.todo = get_config_files(config, listing, fs)]]
  /\ UNCHANGED <<config, listing, fs, table, store, config_files, pc, prev,
                 chain>>

\* mutant: the connection commits every INSERT when it is executed
insert_pending_autocommit(committed, pending, row) ==
  [committed |-> committed (+) SetToBag({row}), pending |-> pending]

\* db_curs.execute(insert_query, entry) on a connection of
\* sqlite3.connect(): the row joins the open transaction, the committed
\* table stays as it is
insert_pending(committed, pending, row) ==
  [committed |-> committed, pending |-> pending (+) SetToBag({row})]

\* one round of the loop: hash the file and insert its row, pass on any
\* Exception
InitInsertFile(self) ==
  /\ runs[self].at = "walk"
  /\ \E file_loc \in runs[self].todo :
       LET h == hash_file(fs, file_loc)
           ins == insert_pending(store, runs[self].pending,
                                 Row(file_loc, h.digest, NotChecked, 0))
       IN  IF h.raised = "none"
             THEN /\ store' = ins.committed
                  /\ runs' = [runs EXCEPT
                                ![self].todo = @ \ {file_loc},
                                ![self].pending = ins.pending]
             ELSE /\ store' = store
                  /\ runs' = [runs EXCEPT ![self].todo = @ \ {file_loc}]
  /\ UNCHANGED <<config, listing, fs, table, config_files, pc, prev, chain>>

\* db_conn.commit()
InitCommit(self) ==
  /\ runs[self].at = "walk"
  /\ runs[self].todo = {}
  /\ store' = store (+) runs[self].pending
  /\ runs' = [runs EXCEPT ![self].at = "committed"]
  /\ UNCHANGED <<config, listing, fs, table, config_files, pc, prev, chain>>

\* the process is interrupted or killed before db_conn.commit(): its open
\* transaction is rolled back
InitInterrupt(self) ==
  /\ runs[self].at \in {"dropped", "created", "walk"}
  /\ runs' = [runs EXCEPT ![self] =
                [Idle EXCEPT !.at = "killed", !.files = runs[self].files]]
  /\ UNCHANGED <<config, listing, fs, table, store, config_files, pc, prev,
                 chain>>

InitNext ==
  \/ ChangeFile
  \/ \E self \in Procs : InitDropTable(self)
  \/ \E self \in Procs : InitCreateTable(self)
  \/ \E self \in Procs : InitResolve(self)
  \/ \E self \in Procs : InitInsertFile(self)
  \/ \E self \in Procs : InitCommit(self)
  \/ \E self \in Procs : InitInterrupt(self)

SpecInit == Init /\ [][InitNext]_vars

(***************************************************************************)
(* Properties.                                                             *)
(*                                                                         *)
(* pc = "init", "update", a member of Checked or of Diffed says which step *)
(* ended last; then prev is the table before that step and fs is the       *)
(* filesystem that step has read.                                          *)
(***************************************************************************)
\* the rows of a path
RowsOf(rows, file_loc) == {r \in BagToSet(rows) : r.file_location = file_loc}

\* the files of the tree that lie under the directory dirpath
RECURSIVE FilesBelow(_)
FilesBelow(dirpath) ==
  IF dirpath \notin DOMAIN Tree
    THEN {}
    ELSE {join(dirpath, f) : f \in Tree[dirpath].files}
           \cup (UNION {FilesBelow(join(dirpath, n)) : n \in Tree[dirpath].dirs})

\* C1: after init_database the table exists and holds exactly one row
\* (path, content hash, "Not checked.", 0) for every resolved path whose
\* hashing succeeds, no row for a resolved path whose hashing fails, and no
\* other row, whatever the table held before.
C1_InitRebuild ==
  pc = "init" =>
    /\ table
    /\ config_files = get_config_files(config, listing, fs)
    /\ \A p \in config_files :
         IF hash_file(fs, p).raised = "none"
           THEN /\ RowCount(store, p) = 1
                /\ BagIn(Row(p, hash_file(fs, p).digest, NotChecked, 0), store)
           ELSE RowCount(store, p) = 0
    /\ database_paths(store) \subseteq config_files

\* init has replaced a table that held rows: a row of the prior table is
\* gone, a resolved path could not be hashed, another one got its row
C1_Witness ==
  /\ pc = "init"
  /\ \E r \in BagToSet(prev) : RowCount(store, r.file_location) = 0
  /\ \E p \in config_files : hash_file(fs, p).raised # "none"
  /\ store # EmptyBag

\* C2: after check_existing_files every row that was in the table is still
\* there with its original_hash, and it has new_hash = the hash of the file
\* and is_modified = 0 if that hash equals original_hash, new_hash = the hash
\* and is_modified = 1 if it differs, new_hash = "File deleted." and
\* is_modified = 1 if the file cannot be read.
C2_ExistingClassified ==
  pc \in Checked =>
    \A r \in BagToSet(prev) :
      /\ RowsOf(store, r.file_location) # {}
      /\ \A r2 \in RowsOf(store, r.file_location) :
           /\ r2.original_hash = r.original_hash
           /\ IF hash_file(fs, r.file_location).raised = "none"
                THEN /\ r2.new_hash = hash_file(fs, r.file_location).digest
                     /\ r2.is_modified = 0 <=> r2.new_hash = r.original_hash
                     /\ r2.is_modified = 1 <=> r2.new_hash # r.original_hash
                ELSE /\ r2.new_hash = FileDeleted
                     /\ r2.is_modified = 1

\* the first phase has found a changed file and a file it cannot read
C2_Witness ==
  /\ pc \in Checked
  /\ \E r \in BagToSet(store) :
       /\ r.is_modified = 1
       /\ r.new_hash \notin {FileDeleted, r.original_hash}
       /\ r.original_hash \notin {NotChecked, NewFile}
  /\ \E r \in BagToSet(store) : r.new_hash = FileDeleted
  /\ \E r \in BagToSet(prev) : r.new_hash = NotChecked

\* C3: after check_new_files every resolved path that had no row and can be
\* hashed has exactly one row (path, "New File.", hash, 1), a resolved path
\* that had no row and cannot be hashed has none, and the rows that were in
\* the table are there unchanged, once each.
C3_NewFilesInserted ==
  pc \in Diffed =>
    /\ \A p \in config_files \ database_paths(prev) :
         IF hash_file(fs, p).raised = "none"
           THEN /\ RowCount(store, p) = 1
                /\ BagIn(Row(p, NewFile, hash_file(fs, p).digest, 1), store)
           ELSE RowCount(store, p) = 0
    /\ \A r \in BagToSet(prev) :
         /\ CopiesIn(r, store) = CopiesIn(r, prev)
         /\ RowCount(store, r.file_location) = RowCount(prev, r.file_location)

\* C4: update_database removes the rows whose new_hash is "File deleted."
\* and keeps every other row; no step other than update and init removes a
\* row.
C4_DeletionRemoval ==
  /\ pc = "update" =>
       /\ \A r \in BagToSet(prev) :
            IF r.new_hash = FileDeleted
              THEN RowCount(store, r.file_location) = 0
              ELSE RowCount(store, r.file_location)
                     = RowCount(prev, r.file_location)
       /\ database_paths(store) \subseteq database_paths(prev)
  /\ pc \notin {"update", "init"} =>
       \A r \in BagToSet(prev) :
         RowCount(store, r.file_location) >= RowCount(prev, r.file_location)

\* update has removed the row of a deleted file and kept another row
C4_Witness ==
  /\ pc = "update"
  /\ \E r \in BagToSet(prev) :
       r.new_hash = FileDeleted /\ RowCount(store, r.file_location) = 0
  /\ \E r \in BagToSet(prev) :
       r.new_hash # FileDeleted /\ RowCount(store, r.file_location) = 1

\* C5: every row that survives update_database has original_hash = its
\* new_hash before the update, new_hash = "Not checked." and is_modified = 0;
\* a row that was (path, "New File.", content hash, 1) has original_hash =
\* that content hash afterwards.
C5_Promotion ==
  pc = "update" =>
    /\ \A r2 \in BagToSet(store) :
         /\ r2.new_hash = NotChecked
         /\ r2.is_modified = 0
         /\ \E r \in RowsOf(prev, r2.file_location) :
              r2.original_hash = r.new_hash
    /\ \A r \in BagToSet(prev) :
         r.original_hash = NewFile /\ r.new_hash # FileDeleted =>
           /\ RowsOf(store, r.file_location) # {}
           /\ \A r2 \in RowsOf(store, r.file_location) :
                /\ r2.original_hash = r.new_hash
                /\ r2.original_hash \in {HexDigest[c] : c \in Contents}

\* update has promoted the hash of a file that diff had found as new and
\* the hash of a file that diff had found changed
C5_Witness ==
  /\ pc = "update"
  /\ \E r \in BagToSet(prev) :
       /\ r.original_hash = NewFile
       /\ r.new_hash # FileDeleted
       /\ RowsOf(store, r.file_location) # {}
  /\ \E r \in BagToSet(prev) :
       /\ r.original_hash \notin {NewFile, NotChecked, r.new_hash}
       /\ r.new_hash # FileDeleted

\* C6: a diff that directly follows a diff, the filesystem being unchanged
\* since the first one started, changes nothing: neither its first nor its
\* second phase changes the table.
C6_DiffIdempotent ==
  /\ pc = "rechecked_existing" => store = prev
  /\ pc \in {"rediff", "rediff_raised"} => store = prev

\* the second diff has run on a table in which the first one had inserted a
\* new file and marked a file deleted
C6_Witness ==
  /\ pc = "rediff"
  /\ \E r \in BagToSet(store) : r.original_hash = NewFile
  /\ \E r \in BagToSet(store) : r.new_hash = FileDeleted

\* C7: update_database run on the table a diff has left (no row has
\* new_hash = "Not checked." there) leaves the original_hash of every row
\* that has is_modified = 0 as it is.
C7_RoundTrip ==
  pc = "update" =>
    \A r \in BagToSet(prev) :
      r.is_modified = 0 /\ r.new_hash # NotChecked =>
        /\ RowsOf(store, r.file_location) # {}
        /\ \A r2 \in RowsOf(store, r.file_location) :
             r2.original_hash = r.original_hash

\* update has run after a diff that found one file unchanged and one changed
C7_Witness ==
  /\ pc = "update"
  /\ \E r \in BagToSet(prev) : r.is_modified = 0 /\ r.new_hash # NotChecked
  /\ \E r \in BagToSet(prev) : r.is_modified = 1 /\ r.new_hash # FileDeleted

\* C8: get_config_files returns no file that lies under a directory of
\* exclude_dirs.
C8_ExcludedDirsPruned ==
  \A p \in config_files :
    \A d \in config.exclude_dirs : p \notin FilesBelow(d)

\* C9: get_config_files returns no path of exclude_files.
C9_ExcludedFilesOmitted ==
  \A p \in config_files : p \notin config.exclude_files

\* C10: no two rows of the table have the same path.
C10_PathUnique ==
  \A p \in database_paths(store) : RowCount(store, p) = 1

\* the table holds a row that init has inserted and a row that diff has
\* inserted
C10_Witness ==
  /\ \E r \in BagToSet(store) : r.original_hash = NewFile
  /\ \E r \in BagToSet(store) : r.original_hash \notin {NewFile, NotChecked}

\* number of rows of a path that have a given original_hash
OrigCount(rows, file_loc, orig_hash) ==
  BagCardinality([r \in {q \in BagToSet(rows) :
                           /\ q.file_location = file_loc
                           /\ q.original_hash = orig_hash} |-> rows[r]])

\* C11: a row whose new_hash is "File deleted." has is_modified = 1.
C11_DeletedIsModified ==
  \A r \in BagToSet(store) : r.new_hash = FileDeleted => r.is_modified = 1

\* a diff has marked a row deleted
C11_Witness ==
  /\ pc \in Diffed
  /\ \E r \in BagToSet(store) : r.new_hash = FileDeleted

\* C12: a step other than init and update (the two phases of diff among
\* them) removes no row and leaves the original_hash of every row as it
\* is.
C12_DiffObserves ==
  pc \notin {"init", "update"} =>
    \A r \in BagToSet(prev) :
      /\ RowCount(store, r.file_location) = RowCount(prev, r.file_location)
      /\ OrigCount(store, r.file_location, r.original_hash)
           = OrigCount(prev, r.file_location, r.original_hash)

\* the first phase of a diff has found a changed file
C12_Witness ==
  /\ pc \in Checked
  /\ \E r \in BagToSet(prev) :
       /\ r.new_hash = NotChecked
       /\ \E r2 \in RowsOf(store, r.file_location) :
            /\ r2.is_modified = 1
            /\ r2.new_hash \notin {FileDeleted, r.original_hash}
            /\ r2.original_hash # NotChecked

\* C13: no failure of hashing leaves init_database, check_existing_files
\* or check_new_files: init and the second phase of diff omit the path, the
\* first phase of diff marks the row deleted, and each of them completes.
C13_NoFailurePropagates ==
  /\ pc \notin Raised
  /\ pc = "init" =>
       \A p \in config_files :
         hash_file(fs, p).raised # "none" => RowCount(store, p) = 0
  /\ pc \in Checked =>
       \A r \in BagToSet(store) :
         hash_file(fs, r.file_location).raised # "none" =>
           r.new_hash = FileDeleted
  /\ pc \in Diffed =>
       \A p \in config_files \ database_paths(prev) :
         hash_file(fs, p).raised # "none" => RowCount(store, p) = 0

\* C14: after a diff every row has is_modified = 1 if and only if its
\* new_hash differs from its original_hash.
C14_ModifiedConsistent ==
  pc \in Diffed =>
    \A r \in BagToSet(store) :
      /\ r.is_modified \in {0, 1}
      /\ r.is_modified = 1 <=> r.new_hash # r.original_hash

\* a diff has marked a row deleted and inserted a row for a new file
C14_Witness ==
  /\ pc = "diff"
  /\ \E r \in BagToSet(store) : r.new_hash = FileDeleted
  /\ \E r \in BagToSet(store) : r.original_hash = NewFile /\ r.is_modified = 1

\* C15: a row with original_hash = "New File." has is_modified = 1; every
\* step other than init and update leaves it with that original_hash; after
\* init and after update no row has it.
C15_PlaceholderPersists ==
  /\ \A r \in BagToSet(store) : r.original_hash = NewFile => r.is_modified = 1
  /\ pc \notin {"init", "update"} =>
       \A r \in BagToSet(prev) :
         r.original_hash = NewFile =>
           /\ RowsOf(store, r.file_location) # {}
           /\ \A r2 \in RowsOf(store, r.file_location) :
                r2.original_hash = NewFile
  /\ pc \in {"init", "update"} =>
       \A r \in BagToSet(store) : r.original_hash # NewFile

\* a later diff has checked the row of a new file again after the file has
\* changed
C15_Witness ==
  /\ pc \in Checked
  /\ \E r \in BagToSet(prev) :
       /\ r.original_hash = NewFile
       /\ \E r2 \in RowsOf(store, r.file_location) :
            r2.new_hash # r.new_hash /\ r2.is_modified = 1

\* C16: update_database run on a table no diff has checked (new_hash is
\* "Not checked.") keeps the rows and sets their original_hash to
\* "Not checked."; the first phase of the next diff then reports every such
\* row whose file can be hashed as modified.
C16_StaleUpdate ==
  /\ pc = "update" =>
       \A r \in BagToSet(prev) :
         r.new_hash = NotChecked =>
           /\ RowsOf(store, r.file_location) # {}
           /\ \A r2 \in RowsOf(store, r.file_location) :
                r2.original_hash = NotChecked
  /\ pc \in Checked =>
       \A r \in BagToSet(store) :
         /\ r.original_hash = NotChecked
         /\ hash_file(fs, r.file_location).raised = "none"
         => r.is_modified = 1

\* a diff has reported a readable file as modified because its baseline is
\* the sentinel
C16_Witness ==
  /\ pc \in Checked
  /\ \E r \in BagToSet(store) :
       /\ r.original_hash = NotChecked
       /\ r.is_modified = 1
       /\ r.new_hash = hash_file(fs, r.file_location).digest

\* C19: after diff, update, diff run one after the other on an unchanged
\* filesystem, no row has is_modified = 1.
C19_AcceptClears ==
  chain = "accepted_diffed" => get_modified_files(store) = {}

\* the three commands have run; a file that cannot be read has lost its row
\* and another file has kept its row
C19_Witness ==
  /\ chain = "accepted_diffed"
  /\ store # EmptyBag
  /\ \E p \in config_files :
       hash_file(fs, p).raised # "none" /\ RowCount(store, p) = 0

\* C20: when the first phase of a diff finds that the file of a row marked
\* "File deleted." can be read again, the row stays, keeps its
\* original_hash, gets new_hash = the hash of the file, and is_modified = 0
\* exactly if that hash equals original_hash.
C20_DeletedNotSticky ==
  pc \in Checked =>
    \A r \in BagToSet(prev) :
      r.new_hash = FileDeleted
      /\ hash_file(fs, r.file_location).raised = "none" =>
        /\ RowsOf(store, r.file_location) # {}
        /\ \A r2 \in RowsOf(store, r.file_location) :
             /\ r2.original_hash = r.original_hash
             /\ r2.new_hash = hash_file(fs, r.file_location).digest
             /\ r2.is_modified = 0
                  <=> hash_file(fs, r.file_location).digest = r.original_hash

\* the file of a row marked deleted is back with the bytes of the baseline
C20_Witness ==
  /\ pc \in Checked
  /\ \E r \in BagToSet(prev) :
       /\ r.new_hash = FileDeleted
       /\ hash_file(fs, r.file_location).digest = r.original_hash
       /\ \E r2 \in RowsOf(store, r.file_location) : r2.is_modified = 0

\* C17: two diff runs at the same time are not protected from each other:
\* when both have read the table before either has committed, both find
\* the same new path without a row and both insert it, and the table then
\* holds two rows of that path.
C17_RaceDuplicates ==
  \A self \in Procs, other \in Procs :
    (/\ self # other
     /\ runs[self].at = "inserted"
     /\ runs[other].at = "inserted")
    => \A file_loc \in runs[self].added \cap runs[other].added :
          RowCount(store, file_loc) = 2

C17_Witness ==
  \E file_loc \in FilePaths :
    /\ runs["p"].at = "inserted"
    /\ runs["q"].at = "inserted"
    /\ file_loc \in runs["p"].added \cap runs["q"].added
    /\ RowCount(store, file_loc) = 2

\* C18: the inserts of init_database are committed together: while the
\* files are hashed, and after the run is interrupted before the commit,
\* the committed table holds none of the rows of the new baseline, and
\* after the commit it holds all of them, never a part of them.
C18_InitAtomic ==
  \A self \in Procs :
    /\ runs[self].at \in {"dropped", "created", "walk", "killed"}
         => store = EmptyBag
    /\ runs[self].at = "committed"
         => /\ store = runs[self].pending
            /\ database_paths(store) \subseteq runs[self].files
            /\ \A file_loc \in database_paths(store) :
                  RowCount(store, file_loc) = 1

C18_Witness ==
  \E self \in Procs :
    /\ runs[self].at = "walk"
    /\ runs[self].pending # EmptyBag
    /\ runs[self].todo # {}
    /\ store = EmptyBag

====
